---- MODULE Spec2Model ----
(***************************************************************************)
(* Model of src/src/simulate.py: the Duffing-oscillator sweep script.      *)
(*                                                                         *)
(* The script is a straight-line program: module-level configuration,      *)
(* then five nested for-loops whose body integrates one combination with   *)
(* scipy's solve_ivp, computes np.std of both solution components, and     *)
(* either saves the trajectory with np.savetxt under a name built from a   *)
(* counter (sim_id) or prints a skip line.                                 *)
(*                                                                         *)
(* Units: physical quantities are integers in hundredths (0.05 is 5).      *)
(* Times are integers in ticks.  A standard deviation is carried as the    *)
(* exact fraction <<num, den>> of its square (the variance); NaN, which    *)
(* np.std returns for an empty array, is <<0, 0>>.                         *)
(*                                                                         *)
(* solve_ivp and the file system are libraries outside the repository:     *)
(* the outcome of a call (success or failure, the samples returned, an     *)
(* OSError from the file system) is an input chosen with \E.               *)
(***************************************************************************)
EXTENDS Integers, Sequences, FiniteSets

VARIABLES
    m,             \* line 26: mass
    F_values,      \* line 33
    delta_values,  \* line 34
    omega_values,  \* line 35
    t_start,       \* line 40
    t_end,         \* line 41
    dt,            \* line 42
    x0_num,        \* line 54: the num argument of np.linspace
    v0_num,        \* line 55
    t_eval,        \* line 43
    x0_vals,       \* line 54
    v0_vals,       \* line 55
    sim_id,        \* line 56: file counter
    idx,           \* position of the five nested loops (lines 61-74)
    sol,           \* line 78: the OdeResult (status and number of samples)
    x_std,         \* line 91, of the combination being processed
    v_std,         \* line 92, of the combination being processed
    files,         \* contents of output_dir: filename -> data written
    stdout,        \* the lines printed (lines 106 and 110)
    pc,            \* where the script is
    exc,           \* the uncaught exception that ended the script, if any
    runs           \* history: one record per combination handed to solve_ivp

vars == <<m, F_values, delta_values, omega_values, t_start, t_end, dt,
          x0_num, v0_num, t_eval, x0_vals, v0_vals, sim_id, idx, sol,
          x_std, v_std, files, stdout, pc, exc, runs>>

config == <<m, F_values, delta_values, omega_values, t_start, t_end, dt,
            x0_num, v0_num>>

(***************************************************************************)
(* Bounds of the model.                                                    *)
(***************************************************************************)
MaxAxisLen == 2    \* longest enumeration list of one axis
MaxCombos == 4     \* largest Cartesian product swept
MaxT == 3          \* largest t_end of a sweep (dt = 1 tick, t_start = 0)
MaxSpan == 6       \* largest t_end of the grids computed on their own
MaxDt == 4         \* largest dt of the grids computed on their own

(***************************************************************************)
(* Program constants.                                                      *)
(***************************************************************************)
Theta == 5         \* line 95: the literal 0.05, in hundredths
NumAxes == 5       \* lines 61-74: five nested loops

SampleVals == {0, 10, 20}   \* values a returned sample can take (hundredths)
MassVals == {-100, 0, 100}  \* masses tried (hundredths); line 26 has 1.0

None == <<>>
NaN == <<0, 0>>

(***************************************************************************)
(* Arithmetic helpers.                                                     *)
(***************************************************************************)
RECURSIVE Sum(_)
Sum(s) == IF s = <<>> THEN 0 ELSE Head(s) + Sum(Tail(s))

RECURSIVE Prod(_)
Prod(s) == IF s = <<>> THEN 1 ELSE Head(s) * Prod(Tail(s))

\* ceil(a / b) for b > 0 (\div rounds toward minus infinity)
CeilDiv(a, b) == -((-a) \div b)

\* the sequences of length n over a set S
SeqsOfLen(S, n) == [1..n -> S]

(***************************************************************************)
(* np.arange(start, stop, step), line 43: ceil((stop - start)/step)        *)
(* points start + i*step, none when that number is not positive.  A zero   *)
(* step raises: arange_raises.                                             *)
(***************************************************************************)
\* a plausible slip: the quotient is rounded down
arange_len_floor(start, stop, step) ==
    IF step > 0 THEN (IF stop > start THEN (stop - start) \div step ELSE 0)
    ELSE (IF stop < start THEN (start - stop) \div (-step) ELSE 0)

arange_len(start, stop, step) ==
    IF step > 0 THEN (IF stop > start THEN CeilDiv(stop - start, step) ELSE 0)
    ELSE (IF stop < start THEN CeilDiv(start - stop, -step) ELSE 0)

arange_raises(start, stop, step) == step = 0

arange(start, stop, step) ==
    [i \in 1..arange_len(start, stop, step) |-> start + (i - 1) * step]

(***************************************************************************)
(* np.linspace(-2, 2, num), lines 54-55, in hundredths: num evenly spaced  *)
(* values from -200 to 200, both ends included.                            *)
(***************************************************************************)
linspace(lo, hi, num) ==
    [i \in 1..num |-> IF num = 1 THEN lo
                      ELSE lo + ((i - 1) * (hi - lo)) \div (num - 1)]

(***************************************************************************)
(* np.std(a), lines 91-92: the population standard deviation               *)
(* sqrt(mean(|a - mean(a)|^2)).  With n = len(a) and S = sum(a) the        *)
(* variance is sum((n*a[i] - S)^2) / n^3; the result is that fraction.     *)
(* An empty array gives NaN.                                               *)
(***************************************************************************)
np_std(a) ==
    LET n == Len(a)
        S == Sum(a)
    IN IF n = 0 THEN NaN
       ELSE <<Sum([i \in 1..n |-> (n * a[i] - S) * (n * a[i] - S)]), n * n * n>>

\* std > theta, a float comparison: False when std is NaN
GT(std, theta) == std[2] > 0 /\ std[1] > theta * theta * std[2]
\* std >= theta
GE(std, theta) == std[2] > 0 /\ std[1] >= theta * theta * std[2]

(***************************************************************************)
(* Line 95: the retention test.                                            *)
(***************************************************************************)
\* a plausible slip: the comparisons are not strict
Retain_nonstrict(xs, vs) == GE(xs, Theta) \/ GE(vs, Theta)

Retain(xs, vs) == GT(xs, Theta) \/ GT(vs, Theta)

(***************************************************************************)
(* Lines 99-102: the file name.  f"{F:.1f}" rounds a value in hundredths   *)
(* to tenths (the axis values used here have no tie digit 5, whose         *)
(* rounding depends on the binary value); f"{delta:.2f}" of a value in     *)
(* hundredths keeps it; f"{sim_id:03d}" is the decimal digits, padded      *)
(* with zeros to at least three.                                           *)
(***************************************************************************)
Fmt1(x) == IF x % 10 < 5 THEN x \div 10 ELSE x \div 10 + 1

Fmt2(x) == x

RECURSIVE Digits(_)
Digits(n) == IF n < 10 THEN <<n>> ELSE Append(Digits(n \div 10), n % 10)

RECURSIVE PadLeft(_, _)
PadLeft(d, w) == IF Len(d) >= w THEN d ELSE PadLeft(<<0>> \o d, w)

Fmt03d(n) == PadLeft(Digits(n), 3)

\* a plausible slip: the counter is left out of the name
filename_no_counter(F, delta, omega, id) == <<Fmt1(F), Fmt2(delta), Fmt1(omega)>>

filename(F, delta, omega, id) == <<Fmt1(F), Fmt2(delta), Fmt1(omega), Fmt03d(id)>>

(***************************************************************************)
(* Lines 61-74: the five nested loops, F outermost and v0 innermost.  A    *)
(* position is the tuple of the five loop indices.                         *)
(***************************************************************************)
AxisLen(p) ==
    CASE p = 1 -> Len(F_values)
      [] p = 2 -> Len(delta_values)
      [] p = 3 -> Len(omega_values)
      [] p = 4 -> Len(x0_vals)
      [] p = 5 -> Len(v0_vals)

Axes == 1..NumAxes

SetMax(S) == CHOOSE x \in S : \A y \in S : y <= x

\* the body runs at all only when no list is empty
FirstCombo ==
    IF \A p \in Axes : AxisLen(p) > 0 THEN [p \in Axes |-> 1] ELSE None

\* a plausible slip: the last value of the innermost list is never reached
NextCombo_short(i) ==
    LET P == {p \in Axes : i[p] < (IF p = NumAxes THEN AxisLen(p) - 1 ELSE AxisLen(p))}
    IN IF P = {} THEN None
       ELSE LET p == SetMax(P)
            IN [q \in Axes |-> IF q < p THEN i[q]
                               ELSE IF q = p THEN i[p] + 1 ELSE 1]

\* the next iteration: the innermost loop that has a value left advances,
\* the loops inside it start over
NextCombo(i) ==
    LET P == {p \in Axes : i[p] < AxisLen(p)}
    IN IF P = {} THEN None
       ELSE LET p == SetMax(P)
            IN [q \in Axes |-> IF q < p THEN i[q]
                               ELSE IF q = p THEN i[p] + 1 ELSE 1]

F == F_values[idx[1]]
delta == delta_values[idx[2]]
omega == omega_values[idx[3]]

(***************************************************************************)
(* The configurations explored.  The lists of lines 33-35 are taken with   *)
(* up to MaxAxisLen values; the first two forcing amplitudes print alike   *)
(* under {F:.1f}.                                                          *)
(***************************************************************************)
F_axis(n) == [i \in 1..n |-> 28 + 2 * i]
delta_axis(n) == [i \in 1..n |-> 10 * i]
omega_axis(n) == [i \in 1..n |-> 80 + 20 * i]

AxisLens == {l \in [Axes -> 0..MaxAxisLen] : Prod(l) <= MaxCombos}

Untouched ==
    /\ t_eval = <<>>
    /\ x0_vals = <<>>
    /\ v0_vals = <<>>
    /\ sim_id = 0
    /\ idx = None
    /\ sol = None
    /\ x_std = NaN
    /\ v_std = NaN
    /\ files = <<>>
    /\ stdout = <<>>
    /\ pc = "start"
    /\ exc = "none"
    /\ runs = <<>>

Init ==
    /\ m \in MassVals
    /\ \E l \in AxisLens :
          /\ F_values = F_axis(l[1])
          /\ delta_values = delta_axis(l[2])
          /\ omega_values = omega_axis(l[3])
          /\ x0_num = l[4]
          /\ v0_num = l[5]
    /\ t_start = 0
    /\ t_end \in 1..MaxT
    /\ dt \in {0, 1}
    /\ Untouched

(***************************************************************************)
(* Lines 26-56: the module-level statements before the loops.              *)
(***************************************************************************)
Startup ==
    /\ pc = "start"
    /\ UNCHANGED <<config, sol, x_std, v_std, files, stdout, runs>>
    /\ LET raises == arange_raises(t_start, t_end, dt)
           te == arange(t_start, t_end, dt)
       IN \/ \* line 43: np.arange raises on a zero step
             /\ raises
             /\ pc' = "crashed"
             /\ exc' = "arange"
             /\ UNCHANGED <<t_eval, x0_vals, v0_vals, sim_id, idx>>
          \/ \* line 49: os.makedirs raises OSError
             /\ ~raises
             /\ t_eval' = te
             /\ pc' = "crashed"
             /\ exc' = "makedirs"
             /\ UNCHANGED <<x0_vals, v0_vals, sim_id, idx>>
          \/ /\ ~raises
             /\ t_eval' = te
             /\ x0_vals' = linspace(-200, 200, x0_num)
             /\ v0_vals' = linspace(-200, 200, v0_num)
             /\ sim_id' = 0
             /\ idx' = FirstCombo'
             /\ pc' = IF idx' # None THEN "integrate" ELSE "done"
             /\ exc' = "none"

(***************************************************************************)
(* Lines 75-92: one call of solve_ivp and the two np.std.  The result is   *)
(* used whatever its status: with status -1 (a step failed) sol.t and      *)
(* sol.y hold only the grid points reached.  A failure before the first    *)
(* grid point is left out of the outcomes drawn here.  x and v are the     *)
(* two rows of sol.y; only their np.std is kept in the state.              *)
(***************************************************************************)
StdsOfLen(n) == {np_std(a) : a \in SeqsOfLen(SampleVals, n)}

Integrate ==
    /\ pc = "integrate"
    /\ UNCHANGED <<config, t_eval, x0_vals, v0_vals, sim_id, idx, files, stdout>>
    /\ \/ \* line 69: 1 / m raises ZeroDivisionError inside solve_ivp
          /\ m = 0
          /\ pc' = "crashed"
          /\ exc' = "duffing"
          /\ UNCHANGED <<sol, x_std, v_std, runs>>
       \/ /\ m # 0
          /\ \E status \in {0, -1} :
             \E n \in (IF status = 0 THEN {Len(t_eval)} ELSE 1..Len(t_eval)) :
             \E xs \in StdsOfLen(n), vs \in StdsOfLen(n) :
                /\ sol' = [status |-> status, n |-> n]
                /\ x_std' = xs
                /\ v_std' = vs
                /\ runs' = Append(runs, [idx |-> idx, status |-> status,
                                         outcome |-> "pending", name |-> None])
          /\ pc' = "classify"
          /\ exc' = "none"

(***************************************************************************)
(* The loop headers, lines 61-74: on to the next combination, or out.      *)
(* sol, x_std and v_std of the finished iteration are dead (lines 78-92    *)
(* assign them before the next read), so they are cleared here.            *)
(***************************************************************************)
Advance ==
    /\ idx' = NextCombo(idx)
    /\ pc' = IF idx' # None THEN "integrate" ELSE "done"
    /\ sol' = None
    /\ x_std' = NaN
    /\ v_std' = NaN

Settle(outcome, name) ==
    runs' = [runs EXCEPT ![Len(runs)].outcome = outcome, ![Len(runs)].name = name]

\* a plausible slip: the counter moves by two
bump_twice(id) == id + 2

\* line 107
bump(id) == id + 1

(***************************************************************************)
(* Lines 95-107: the trajectory is kept.  np.savetxt writes the file       *)
(* (replacing one of the same name) or raises OSError.  The data written   *)
(* is len(sol.t) rows; the combination it came from is noted with it.      *)
(***************************************************************************)
Save ==
    /\ pc = "classify"
    /\ Retain(x_std, v_std)
    /\ LET name == filename(F, delta, omega, sim_id)
       IN /\ files' = [f \in DOMAIN files \cup {name} |->
                          IF f = name THEN [rows |-> sol.n, idx |-> idx]
                          ELSE files[f]]
          /\ stdout' = Append(stdout, [kind |-> "Saved", name |-> name])
          /\ Settle("Saved", name)
    /\ sim_id' = bump(sim_id)
    /\ Advance
    /\ UNCHANGED <<config, t_eval, x0_vals, v0_vals, exc>>

SinkReject ==
    /\ pc = "classify"
    /\ Retain(x_std, v_std)
    /\ Settle("SinkFailure", filename(F, delta, omega, sim_id))
    /\ pc' = "crashed"
    /\ exc' = "savetxt"
    /\ UNCHANGED <<config, t_eval, x0_vals, v0_vals, sim_id, idx, sol,
                   x_std, v_std, files, stdout>>

(***************************************************************************)
(* Lines 108-110: the trajectory is skipped.                               *)
(***************************************************************************)
Skip ==
    /\ pc = "classify"
    /\ ~Retain(x_std, v_std)
    /\ stdout' = Append(stdout, [kind |-> "Skipped", name |-> Fmt03d(sim_id)])
    /\ Settle("Skipped", None)
    /\ Advance
    /\ UNCHANGED <<config, t_eval, x0_vals, v0_vals, sim_id, files, exc>>

Next == Startup \/ Integrate \/ Save \/ SinkReject \/ Skip

Spec == Init /\ [][Next]_vars

(***************************************************************************)
(* The grid of line 43 on its own: any TimeSpan, then the module-level     *)
(* statements.                                                             *)
(***************************************************************************)
GridInit ==
    /\ m = 100
    /\ F_values = F_axis(1)
    /\ delta_values = delta_axis(1)
    /\ omega_values = omega_axis(1)
    /\ x0_num = 1
    /\ v0_num = 1
    /\ t_start \in 0..1
    /\ t_end \in 0..MaxSpan
    /\ dt \in -1..MaxDt
    /\ Untouched

GridSpec == GridInit /\ [][Startup]_vars

(***************************************************************************)
(* Vocabulary of the properties.                                           *)
(***************************************************************************)
Ran == 1..Len(runs)

\* the Cartesian product of the five axes, as index tuples
Combos ==
    {<<a, b, c, d, e>> : a \in 1..AxisLen(1), b \in 1..AxisLen(2), c \in 1..AxisLen(3),
                         d \in 1..AxisLen(4), e \in 1..AxisLen(5)}

NumCombos == Len(F_values) * Len(delta_values) * Len(omega_values)
             * Len(x0_vals) * Len(v0_vals)

\* the place of a combination in the lexicographic order, F slowest
RECURSIVE Rank(_, _)
Rank(c, p) == IF p = 0 THEN 0 ELSE Rank(c, p - 1) * AxisLen(p) + (c[p] - 1)

SavedBefore(j) == Cardinality({i \in 1..(j - 1) : runs[i].outcome = "Saved"})

RECURSIVE DigitsValue(_)
DigitsValue(d) ==
    IF d = <<>> THEN 0 ELSE 10 * DigitsValue(SubSeq(d, 1, Len(d) - 1)) + d[Len(d)]

InvalidConfiguration ==
    \/ m <= 0
    \/ dt <= 0
    \/ t_end <= t_start
    \/ F_values = <<>> \/ delta_values = <<>> \/ omega_values = <<>>
    \/ x0_num = 0 \/ v0_num = 0

\* the grid of line 43 has n points t_start + i*dt, ascending from t_start
GridPoints(n) ==
    /\ Len(t_eval) = n
    /\ \A i \in 1..Len(t_eval) : t_eval[i] = t_start + (i - 1) * dt
    /\ \A i \in 1..(Len(t_eval) - 1) : t_eval[i] < t_eval[i + 1]
    /\ Len(t_eval) > 0 => t_eval[1] = t_start

\* the module-level statements ran with a valid TimeSpan
GridComputed == pc \in {"integrate", "done"} /\ dt > 0 /\ t_end > t_start

\* C1: no combination is integrated twice and every run is a combination
\* of the product; when the sweep completes, each combination of the
\* product has been run, so the number of runs is the product of the five
\* axis lengths.
C1_EachCombinationOnce ==
    /\ \A i, j \in Ran : i # j => runs[i].idx # runs[j].idx
    /\ \A i \in Ran : runs[i].idx \in Combos
    /\ pc = "done" =>
          /\ Len(runs) = NumCombos
          /\ \A c \in Combos : \E i \in Ran : runs[i].idx = c

C1_Witness == pc = "done" /\ Len(runs) = 4 /\ NumCombos = 4

\* C2: no two saved trajectories of one sweep carry the same file name,
\* and every saved trajectory is still the content of its own file.
C2_UniqueIdentifiers ==
    /\ \A i, j \in Ran :
          (i # j /\ runs[i].outcome = "Saved" /\ runs[j].outcome = "Saved")
             => runs[i].name # runs[j].name
    /\ \A i \in Ran :
          runs[i].outcome = "Saved"
             => /\ runs[i].name \in DOMAIN files
                /\ files[runs[i].name].idx = runs[i].idx

\* two trajectories saved whose names agree in all but the counter, with a
\* skipped one among the runs
C2_Witness ==
    \E i, j, k \in Ran :
       /\ i < j
       /\ runs[i].outcome = "Saved" /\ runs[j].outcome = "Saved"
       /\ SubSeq(runs[i].name, 1, 3) = SubSeq(runs[j].name, 1, 3)
       /\ runs[k].outcome = "Skipped"

\* C4 (as claimed): in a sweep with a valid configuration, a combination
\* whose integration failed (status -1) is not saved as a normal trajectory.
C4_FailedNotSaved ==
    ~InvalidConfiguration =>
       \A i \in Ran : runs[i].status = -1 => runs[i].outcome # "Saved"

\* C5 (as claimed): in a sweep with a valid configuration, every file in
\* the sink holds as many samples as the evaluation grid has points.
C5_NoTruncatedFile ==
    ~InvalidConfiguration =>
       \A f \in DOMAIN files : files[f].rows = Len(t_eval)

\* C6: at the retention branch, np.savetxt is called (the file appears, or
\* the sink raises) exactly when std(x) > 0.05 or std(v) > 0.05, both
\* strict; otherwise no file changes and a skip line is printed.
C6_RetainIffDispersion ==
    [][pc = "classify" =>
         LET above(s) == s[2] > 0 /\ s[1] > Theta * Theta * s[2]
             last == runs'[Len(runs')]
         IN IF above(x_std) \/ above(v_std)
            THEN \/ /\ last.outcome = "Saved"
                    /\ last.name \in DOMAIN files'
                    /\ last.name \notin DOMAIN files
                    /\ stdout'[Len(stdout')].kind = "Saved"
                 \/ /\ last.outcome = "SinkFailure"
                    /\ exc' = "savetxt"
            ELSE /\ last.outcome = "Skipped"
                 /\ files' = files
                 /\ Len(stdout') = Len(stdout) + 1
                 /\ stdout'[Len(stdout')].kind = "Skipped"]_vars

C6_Witness ==
    /\ pc = "done"
    /\ \E i, j \in Ran : runs[i].outcome = "Saved" /\ runs[j].outcome = "Skipped"

\* C7 (as claimed): for dt > 0 and t_end > t_start the grid has exactly
\* floor((t_end - t_start)/dt) points t_start + i*dt, ascending, the
\* first one t_start.
C7_GridIsFloor ==
    GridComputed =>
       \E n \in 0..MaxSpan + 1 :
          /\ n * dt <= t_end - t_start
          /\ t_end - t_start < (n + 1) * dt
          /\ GridPoints(n)

\* C7 (amended): for dt > 0 and t_end > t_start the grid has exactly
\* ceil((t_end - t_start)/dt) points t_start + i*dt, ascending, the first
\* one t_start.
C7_GridIsCeil ==
    GridComputed =>
       \E n \in 1..MaxSpan + 1 :
          /\ (n - 1) * dt < t_end - t_start
          /\ t_end - t_start <= n * dt
          /\ GridPoints(n)

\* a span the step does not divide
C7_Witness == GridComputed /\ (t_end - t_start) % dt # 0 /\ Len(t_eval) > 1

\* C8 (as claimed): with an invalid configuration no combination is
\* integrated and nothing is written.
C8_InvalidConfigurationStopsEarly ==
    InvalidConfiguration => (runs = <<>> /\ files = <<>>)

\* C9 (as claimed): in a sweep with a valid configuration, a write the
\* sink rejects does not end the sweep.
C9_SinkFailureDoesNotStopSweep ==
    (~InvalidConfiguration /\ \E i \in Ran : runs[i].outcome = "SinkFailure")
       => pc # "crashed"

\* C10: runs happen in lexicographic order, F slowest and v0 fastest;
\* sim_id is the number of trajectories saved so far; a saved trajectory
\* carries as identifier the number of trajectories saved before it.
C10_CounterAndOrder ==
    /\ \A j \in Ran : Rank(runs[j].idx, NumAxes) = j - 1
    /\ sim_id = Cardinality({i \in Ran : runs[i].outcome = "Saved"})
    /\ \A j \in Ran :
          runs[j].outcome = "Saved"
             => DigitsValue(runs[j].name[4]) = SavedBefore(j)
    /\ \A j \in 1..Len(stdout) :
          stdout[j].kind = "Skipped"
             => DigitsValue(stdout[j].name)
                   = Cardinality({i \in 1..(j - 1) : stdout[i].kind = "Saved"})

\* a completed sweep over two axes of two values, with a skip before a save
C10_Witness ==
    /\ pc = "done"
    /\ Len(runs) = 4
    /\ runs[1].outcome = "Skipped"
    /\ runs[2].outcome = "Saved"
    /\ runs[3].outcome = "Skipped"
    /\ runs[4].outcome = "Saved"
    /\ sim_id = 2

====
